---------------------------- MODULE Spec2Model ----------------------------
(***************************************************************************)
(* A model of fetch.py (the markdown extractors and the JSON-LD builder)   *)
(* and of query.py (the graph accessors, the intent classifier and the     *)
(* retriever).                                                             *)
(*                                                                         *)
(* A Python str is a tuple of characters, each a string: a character of    *)
(* Latin-1 is itself, any other character is written by its code point,    *)
(* "\\u2020" for U+2020.  The case tables cover Latin-1.                   *)
(*                                                                         *)
(* A Python value that is stored in a dict, returned where None is         *)
(* possible, or tested for truth is tagged: PyNone, PyStr(s), PyInt(n),    *)
(* PyList(l), PyDict(d).  A dict is a TLA+ record whose DOMAIN is its set  *)
(* of keys.                                                                *)
(***************************************************************************)
EXTENDS Integers, Sequences, FiniteSets, TLC

(***************************************************************************)
(* Bounds of the model.                                                    *)
(***************************************************************************)
\* top-level blocks of a document given to one extractor
MaxBlocks == 3

\* top-level blocks (sections) of a document given to the builder
MaxBuildBlocks == 3

\* top-level blocks of a document taken through fetch.py and then query.py
MaxPipelineBlocks == 2

\* characters of a question grown by inserting triggers
MaxQuestionLen == 15

\* nodes of a saved graph
MaxGraphNodes == 2

(***************************************************************************)
(* Python values.                                                          *)
(***************************************************************************)
PyNone == [t |-> "none"]

PyStr(s) == [t |-> "str", v |-> s]

PyInt(n) == [t |-> "int", v |-> n]

PyList(l) == [t |-> "list", v |-> l]

PyDict(d) == [t |-> "dict", v |-> d]

\* {} : the dict without keys
EmptyDict == PyDict(<<>>)

\* bool(x)
Truthy(x) ==
    CASE x.t = "none" -> FALSE
      [] x.t = "str"  -> x.v # <<>>
      [] x.t = "int"  -> x.v # 0
      [] x.t = "list" -> x.v # <<>>
      [] x.t = "dict" -> DOMAIN x.v # {}

\* d.get(k, default), d a tagged dict
Get(d, k, default) == IF k \in DOMAIN d.v THEN d.v[k] ELSE default

\* a or b
PyOr(a, b) == IF Truthy(a) THEN a ELSE b

\* a == b on tagged values
PyEq(a, b) == IF a.t # b.t THEN FALSE ELSE IF a.t = "none" THEN TRUE ELSE a.v = b.v

\* next((x for x in c), default): the first element of c, or default
FirstOf(c, default) == IF c = <<>> THEN default ELSE c[1]

(***************************************************************************)
(* Python str methods, on tuples of characters.                            *)
(***************************************************************************)
\* the characters c with c.lower() != c, and what c.lower() gives for each
UpperCase ==
    << "A", "B", "C", "D", "E", "F", "G", "H", "I", "J", "K", "L",
       "M", "N", "O", "P", "Q", "R", "S", "T", "U", "V", "W", "X",
       "Y", "Z", "À", "Á", "Â", "Ã", "Ä", "Å", "Æ", "Ç", "È", "É",
       "Ê", "Ë", "Ì", "Í", "Î", "Ï", "Ð", "Ñ", "Ò", "Ó", "Ô", "Õ",
       "Ö", "Ø", "Ù", "Ú", "Û", "Ü", "Ý", "Þ" >>

LowerCase ==
    << "a", "b", "c", "d", "e", "f", "g", "h", "i", "j", "k", "l",
       "m", "n", "o", "p", "q", "r", "s", "t", "u", "v", "w", "x",
       "y", "z", "à", "á", "â", "ã", "ä", "å", "æ", "ç", "è", "é",
       "ê", "ë", "ì", "í", "î", "ï", "ð", "ñ", "ò", "ó", "ô", "õ",
       "ö", "ø", "ù", "ú", "û", "ü", "ý", "þ" >>

LowerMap == [c \in { UpperCase[i] : i \in DOMAIN UpperCase } |->
               LowerCase[CHOOSE i \in DOMAIN UpperCase : UpperCase[i] = c]]

LowerChar(c) == IF c \in DOMAIN LowerMap THEN LowerMap[c] ELSE c

\* s.lower()
Lower(s) == [i \in DOMAIN s |-> LowerChar(s[i])]

\* the characters c with c.isspace(): what str.strip() and str.split() take
\* for whitespace
Whitespace ==
    << "\t", "\n", "", "\f", "\r", "", "", "", "", " ", "", " ",
       "\\u1680", "\\u2000", "\\u2001", "\\u2002", "\\u2003", "\\u2004", "\\u2005", "\\u2006", "\\u2007", "\\u2008", "\\u2009", "\\u200A",
       "\\u2028", "\\u2029", "\\u202F", "\\u205F", "\\u3000" >>

IsSpace(c) == c \in { Whitespace[i] : i \in DOMAIN Whitespace }

\* k in s, both str
Contains(s, k) ==
    \E i \in 0..(Len(s) - Len(k)) : SubSeq(s, i + 1, i + Len(k)) = k

RECURSIVE LStrip(_)
LStrip(s) == IF s # <<>> /\ IsSpace(Head(s)) THEN LStrip(Tail(s)) ELSE s

RECURSIVE RStrip(_)
RStrip(s) ==
    IF s # <<>> /\ IsSpace(s[Len(s)]) THEN RStrip(SubSeq(s, 1, Len(s) - 1)) ELSE s

\* s.strip()
Strip(s) == RStrip(LStrip(s))

\* the line boundaries of str.splitlines(), "\r\n" counting as one
LineBreaks ==
    <<"\n","","\f","\r","","","","","\\u2028","\\u2029">>

\* s.splitlines(): the lines of s, a final line break opening no further line
SplitLines(s) ==
    LET IsBreak(i) == s[i] \in { LineBreaks[j] : j \in DOMAIN LineBreaks }
        \* the positions where a line boundary ends: the "\r" of "\r\n" is not one
        ends == SelectSeq([i \in 1..Len(s) |-> i],
                          LAMBDA i : IsBreak(i)
                                     /\ ~(s[i] = "\r" /\ i < Len(s) /\ s[i + 1] = "\n"))
        from(k) == IF k = 1 THEN 1 ELSE ends[k - 1] + 1
        to(k) == IF s[ends[k]] = "\n" /\ ends[k] > 1 /\ s[ends[k] - 1] = "\r"
                 THEN ends[k] - 2
                 ELSE ends[k] - 1
        last == IF ends = <<>> THEN 1 ELSE ends[Len(ends)] + 1
    IN [k \in 1..Len(ends) |-> SubSeq(s, from(k), to(k))]
       \o (IF last <= Len(s) THEN <<SubSeq(s, last, Len(s))>> ELSE <<>>)

\* s.split(): the maximal runs of non-whitespace characters
RECURSIVE SplitFrom(_, _, _)
SplitFrom(s, i, cur) ==
    IF i > Len(s) THEN (IF cur = <<>> THEN <<>> ELSE <<cur>>)
    ELSE IF IsSpace(s[i])
         THEN (IF cur = <<>> THEN <<>> ELSE <<cur>>) \o SplitFrom(s, i + 1, <<>>)
         ELSE SplitFrom(s, i + 1, Append(cur, s[i]))

Split(s) == SplitFrom(s, 1, <<>>)

\* the characters c with c.title() != c, and what c.title() gives for each
\* that it maps to one character
TitleFrom ==
    << "a", "b", "c", "d", "e", "f", "g", "h", "i", "j", "k", "l",
       "m", "n", "o", "p", "q", "r", "s", "t", "u", "v", "w", "x",
       "y", "z", "µ", "à", "á", "â", "ã", "ä", "å", "æ", "ç", "è",
       "é", "ê", "ë", "ì", "í", "î", "ï", "ð", "ñ", "ò", "ó", "ô",
       "õ", "ö", "ø", "ù", "ú", "û", "ü", "ý", "þ", "ÿ" >>

TitleTo ==
    << "A", "B", "C", "D", "E", "F", "G", "H", "I", "J", "K", "L",
       "M", "N", "O", "P", "Q", "R", "S", "T", "U", "V", "W", "X",
       "Y", "Z", "\\u039C", "À", "Á", "Â", "Ã", "Ä", "Å", "Æ", "Ç", "È",
       "É", "Ê", "Ë", "Ì", "Í", "Î", "Ï", "Ð", "Ñ", "Ò", "Ó", "Ô",
       "Õ", "Ö", "Ø", "Ù", "Ú", "Û", "Ü", "Ý", "Þ", "\\u0178" >>

TitleMap == [c \in { TitleFrom[i] : i \in DOMAIN TitleFrom } |->
               TitleTo[CHOOSE i \in DOMAIN TitleFrom : TitleFrom[i] = c]]

\* c.title() for one character
TitleChar(c) ==
    IF c = "ß" THEN <<"S", "s">>
    ELSE IF c \in DOMAIN TitleMap THEN <<TitleMap[c]>>
    ELSE <<c>>

\* the cased characters: after one of them str.title() lowercases
Cased ==
    << "A", "B", "C", "D", "E", "F", "G", "H", "I", "J", "K", "L",
       "M", "N", "O", "P", "Q", "R", "S", "T", "U", "V", "W", "X",
       "Y", "Z", "a", "b", "c", "d", "e", "f", "g", "h", "i", "j",
       "k", "l", "m", "n", "o", "p", "q", "r", "s", "t", "u", "v",
       "w", "x", "y", "z", "ª", "µ", "º", "À", "Á", "Â", "Ã", "Ä",
       "Å", "Æ", "Ç", "È", "É", "Ê", "Ë", "Ì", "Í", "Î", "Ï", "Ð",
       "Ñ", "Ò", "Ó", "Ô", "Õ", "Ö", "Ø", "Ù", "Ú", "Û", "Ü", "Ý",
       "Þ", "ß", "à", "á", "â", "ã", "ä", "å", "æ", "ç", "è", "é",
       "ê", "ë", "ì", "í", "î", "ï", "ð", "ñ", "ò", "ó", "ô", "õ",
       "ö", "ø", "ù", "ú", "û", "ü", "ý", "þ", "ÿ" >>

IsCased(c) == c \in { Cased[i] : i \in DOMAIN Cased }

\* s.title(): a character after a cased one is lowercased, any other one is
\* titlecased
RECURSIVE TitleAt(_, _)
TitleAt(s, i) ==
    IF i > Len(s) THEN <<>>
    ELSE (IF i > 1 /\ IsCased(s[i - 1]) THEN <<LowerChar(s[i])>> ELSE TitleChar(s[i]))
         \o TitleAt(s, i + 1)

Title(s) == TitleAt(s, 1)

\* s.replace(old, new), old one character
Replace(s, old, new) ==
    LET RECURSIVE From(_)
        From(i) == IF i > Len(s) THEN <<>>
                   ELSE (IF s[i] = old THEN new ELSE <<s[i]>>) \o From(i + 1)
    IN From(1)

\* sep.join(parts), parts a sequence of str
RECURSIVE Join(_, _)
Join(sep, parts) ==
    IF parts = <<>> THEN <<>>
    ELSE IF Len(parts) = 1 THEN parts[1]
    ELSE parts[1] \o sep \o Join(sep, Tail(parts))

\* list(dict.fromkeys(l)): the first occurrence of each element, in order
RECURSIVE DedupFrom(_, _)
DedupFrom(l, seen) ==
    IF l = <<>> THEN <<>>
    ELSE IF Head(l) \in seen THEN DedupFrom(Tail(l), seen)
    ELSE <<Head(l)>> \o DedupFrom(Tail(l), seen \cup {Head(l)})

Dedup(l) == DedupFrom(l, {})

RECURSIVE Flatten(_)
Flatten(ll) == IF ll = <<>> THEN <<>> ELSE Head(ll) \o Flatten(Tail(ll))

(***************************************************************************)
(* The syntax tree: SyntaxTreeNode(MarkdownIt().parse(text)).  A tree is a *)
(* sequence of nodes [type, tag, level, content, parent]; node 0 is the    *)
(* root, and parent is the index of the node's parent.  The children of a  *)
(* node are the nodes naming it as parent, in index order.                 *)
(*                                                                         *)
(* A node made of an opening and a closing token (heading, paragraph,      *)
(* bullet_list, list_item, blockquote, em) has the attributes of its       *)
(* opening token: its content is empty and its level is the nesting depth  *)
(* of the token, 0 for a block at the top of the document.  The text of a  *)
(* heading or paragraph is the content of its inline child and of the text *)
(* children of that; the depth of a heading is in its tag (h1 to h6).  A   *)
(* fence is one token and its content is the text between the fences.      *)
(***************************************************************************)
Node(type, tag, level, content, parent) ==
    [type |-> type, tag |-> tag, level |-> level, content |-> content,
     parent |-> parent]

NodeType(tree, n) == IF n = 0 THEN "root" ELSE tree[n].type

\* node.children
Children(tree, n) ==
    SelectSeq([i \in 1..Len(tree) |-> i], LAMBDA i : tree[i].parent = n)

\* node.walk(): the node, then the walk of each child in order
RECURSIVE walk(_, _)
walk(tree, n) ==
    LET ch == Children(tree, n)
    IN <<n>> \o Flatten([j \in 1..Len(ch) |-> walk(tree, ch[j])])

\* siblings[idx+1:] for siblings = node.parent.children, idx = siblings.index(node)
FollowingSiblings(tree, n) ==
    SelectSeq(Children(tree, tree[n].parent), LAMBDA m : m > n)

(***************************************************************************)
(* The documents: up to MaxBlocks blocks of Markdown, separated by blank   *)
(* lines, each one of the Blocks below (its Markdown is in the comment).   *)
(* A block is the subtree parse_md gives for it; its parent fields are     *)
(* relative: 0 is the root of the document, k the k-th node of the block.  *)
(***************************************************************************)
\* # Foo
BlockH1 ==
    << Node("heading", "h1", 0, <<>>, 0),
       Node("inline", "", 1, <<"F","o","o">>, 1),
       Node("text", "", 0, <<"F","o","o">>, 2) >>

\* A tiny tool.
BlockPara ==
    << Node("paragraph", "p", 0, <<>>, 0),
       Node("inline", "", 1, <<"A"," ","t","i","n","y"," ","t","o","o","l",".">>, 1),
       Node("text", "", 0, <<"A"," ","t","i","n","y"," ","t","o","o","l",".">>, 2) >>

\* ## Key Features
BlockH2Features ==
    << Node("heading", "h2", 0, <<>>, 0),
       Node("inline", "", 1, <<"K","e","y"," ","F","e","a","t","u","r","e","s">>, 1),
       Node("text", "", 0, <<"K","e","y"," ","F","e","a","t","u","r","e","s">>, 2) >>

\* ### COMPATIBILITY
BlockH3Compat ==
    << Node("heading", "h3", 0, <<>>, 0),
       Node("inline", "", 1, <<"C","O","M","P","A","T","I","B","I","L","I","T","Y">>, 1),
       Node("text", "", 0, <<"C","O","M","P","A","T","I","B","I","L","I","T","Y">>, 2) >>

\* ```
\* pip install foo
\*   pip install foo  
\* echo hi
\* $ pip install bar
\* ```
BlockFencePip ==
    << Node("fence", "code", 0,
            <<"p","i","p"," ","i","n","s","t","a","l","l"," ","f","o","o","\n"," "," ","p","i","p"," ","i","n","s","t","a","l","l"," ","f","o","o"," "," ","\n","e","c","h","o"," ","h","i","\n","$"," ","p","i","p"," ","i","n","s","t","a","l","l"," ","b","a","r","\n">>, 0) >>

\* ```sh
\* $ pip install bar
\*
\* pip install foo
\* ```
BlockFencePip2 ==
    << Node("fence", "code", 0, <<"$"," ","p","i","p"," ","i","n","s","t","a","l","l"," ","b","a","r","\n","\n","p","i","p"," ","i","n","s","t","a","l","l"," ","f","o","o","\n">>, 0) >>

\* ```
\* echo pip
\* install
\* ```
BlockFenceOther == << Node("fence", "code", 0, <<"e","c","h","o"," ","p","i","p","\n","i","n","s","t","a","l","l","\n">>, 0) >>

\* - Fast
\* - Small *er*
BlockList ==
    << Node("bullet_list", "ul", 0, <<>>, 0),
       Node("list_item", "li", 1, <<>>, 1),
       Node("paragraph", "p", 2, <<>>, 2),
       Node("inline", "", 3, <<"F","a","s","t">>, 3),
       Node("text", "", 0, <<"F","a","s","t">>, 4),
       Node("list_item", "li", 1, <<>>, 1),
       Node("paragraph", "p", 2, <<>>, 6),
       Node("inline", "", 3, <<"S","m","a","l","l"," ","*","e","r","*">>, 7),
       Node("text", "", 0, <<"S","m","a","l","l"," ">>, 8),
       Node("em", "em", 0, <<>>, 8),
       Node("text", "", 1, <<"e","r">>, 10) >>

\* *                      (a bullet list whose only item is empty)
BlockListEmpty ==
    << Node("bullet_list", "ul", 0, <<>>, 0),
       Node("list_item", "li", 1, <<>>, 1) >>

\* > ## Features          (a heading in a block quote, no list beside it)
BlockQuoteFeatures ==
    << Node("blockquote", "blockquote", 0, <<>>, 0),
       Node("heading", "h2", 1, <<>>, 1),
       Node("inline", "", 2, <<"F","e","a","t","u","r","e","s">>, 2),
       Node("text", "", 0, <<"F","e","a","t","u","r","e","s">>, 3) >>

\* > # Nested
\* >
\* > Quoted.
\* >
\* > ```
\* > pip install baz
\* > ```
BlockQuoteH1 ==
    << Node("blockquote", "blockquote", 0, <<>>, 0),
       Node("heading", "h1", 1, <<>>, 1),
       Node("inline", "", 2, <<"N","e","s","t","e","d">>, 2),
       Node("text", "", 0, <<"N","e","s","t","e","d">>, 3),
       Node("paragraph", "p", 1, <<>>, 1),
       Node("inline", "", 2, <<"Q","u","o","t","e","d",".">>, 5),
       Node("text", "", 0, <<"Q","u","o","t","e","d",".">>, 6),
       Node("fence", "code", 1, <<"p","i","p"," ","i","n","s","t","a","l","l"," ","b","a","z","\n">>, 1) >>

\* + ## Features          (a heading and a list in a list item: the level
\*   - Fast                of the heading node is 2)
BlockItemFeatures ==
    << Node("bullet_list", "ul", 0, <<>>, 0),
       Node("list_item", "li", 1, <<>>, 1),
       Node("heading", "h2", 2, <<>>, 2),
       Node("inline", "", 3, <<"F","e","a","t","u","r","e","s">>, 3),
       Node("text", "", 0, <<"F","e","a","t","u","r","e","s">>, 4),
       Node("bullet_list", "ul", 2, <<>>, 2),
       Node("list_item", "li", 3, <<>>, 6),
       Node("paragraph", "p", 4, <<>>, 7),
       Node("inline", "", 5, <<"F","a","s","t">>, 8),
       Node("text", "", 0, <<"F","a","s","t">>, 9) >>

Blocks ==
    { BlockH1, BlockPara, BlockH2Features, BlockH3Compat,
      BlockFencePip, BlockFencePip2, BlockFenceOther, BlockList,
      BlockListEmpty, BlockQuoteFeatures, BlockQuoteH1, BlockItemFeatures }

\* the block b, placed after `offset` nodes of the document
Place(b, offset) ==
    [i \in 1..Len(b) |->
        [b[i] EXCEPT !.parent = IF b[i].parent = 0 THEN 0 ELSE b[i].parent + offset]]

RECURSIVE Assemble(_, _)
Assemble(bs, offset) ==
    IF bs = <<>> THEN <<>>
    ELSE Place(Head(bs), offset) \o Assemble(Tail(bs), offset + Len(Head(bs)))

\* the trees of the documents of up to max blocks of the pool; a block that
\* starts with a bullet list does not follow itself (the two lists, having
\* the same marker, would be parsed as one)
Documents(pool, max) ==
    { Assemble(bs, 0) :
        bs \in { b \in UNION { [1..k -> pool] : k \in 0..max } :
                   \A i \in 1..(Len(b) - 1) :
                       ~(b[i] = b[i + 1] /\ b[i][1].type = "bullet_list") } }

(***************************************************************************)
(* fetch.py: the structural extractors.                                    *)
(***************************************************************************)
\* for nxt in siblings[idx+1:]: if nxt.type == t: the first such nxt, or 0
FirstFollowingOfType(tree, n, t) ==
    FirstOf(SelectSeq(FollowingSiblings(tree, n), LAMBDA m : tree[m].type = t), 0)

\* first_para_after_title(ast): over the children of the root, the first
\* level-1 heading that has a paragraph among its following siblings gives
\* that paragraph's stripped content; None when the loop ends
first_para_after_title(tree) ==
    LET RECURSIVE Scan(_)
        Scan(ch) ==
            IF ch = <<>> THEN PyNone
            ELSE LET node == Head(ch)
                     nxt == FirstFollowingOfType(tree, node, "paragraph")
                 IN IF tree[node].type = "heading" /\ tree[node].level = 1 /\ nxt # 0
                    THEN PyStr(Strip(tree[nxt].content))
                    ELSE Scan(Tail(ch))
    IN Scan(Children(tree, 0))

PipInstall == <<"p","i","p"," ","i","n","s","t","a","l","l">>

\* the body of the loop of find_install_cmds for one node: the stripped
\* lines containing "pip install" of a fence whose content contains it
FenceCmds(tree, n) ==
    IF NodeType(tree, n) = "fence" /\ Contains(tree[n].content, PipInstall)
    THEN LET lines == SplitLines(tree[n].content)
             hits == SelectSeq(lines, LAMBDA line : Contains(line, PipInstall))
         IN [i \in 1..Len(hits) |-> Strip(hits[i])]
    ELSE <<>>

find_install_cmds_NoDedup(tree) ==
    LET w == walk(tree, 0)
        cmds == Flatten([i \in 1..Len(w) |-> FenceCmds(tree, w[i])])
    IN PyList([i \in 1..Len(cmds) |-> PyStr(cmds[i])])

\* find_install_cmds(ast)
find_install_cmds(tree) ==
    LET w == walk(tree, 0)
        cmds == Dedup(Flatten([i \in 1..Len(w) |-> FenceCmds(tree, w[i])]))
    IN PyList([i \in 1..Len(cmds) |-> PyStr(cmds[i])])

\* " ".join(c.content.strip() for c in item.walk() if c.type == "text")
ItemText(tree, item) ==
    LET leaves == SelectSeq(walk(tree, item), LAMBDA c : tree[c].type = "text")
    IN Join(<<" ">>, [i \in 1..Len(leaves) |-> Strip(tree[leaves[i]].content)])

\* the items list built from the bullet list nxt: the non-empty item texts
ListItems(tree, nxt) ==
    LET ch == Children(tree, nxt)
        texts == [i \in 1..Len(ch) |-> ItemText(tree, ch[i])]
        kept == SelectSeq(texts, LAMBDA text : text # <<>>)
    IN PyList([i \in 1..Len(kept) |-> PyStr(kept[i])])

\* node.type == "heading" and node.level in (2, 3) and any(kw in heading_text ...)
HeadingMatches(tree, n, keywords) ==
    /\ NodeType(tree, n) = "heading"
    /\ tree[n].level \in {2, 3}
    /\ \E k \in 1..Len(keywords) :
          Contains(Lower(Strip(tree[n].content)), Lower(keywords[k]))

\* list_after_heading(ast, keywords): the walk goes on past a matching
\* heading that has no bullet list among its following siblings
list_after_heading(tree, keywords) ==
    LET RECURSIVE Scan(_)
        Scan(w) ==
            IF w = <<>> THEN PyList(<<>>)
            ELSE LET node == Head(w)
                     nxt == IF HeadingMatches(tree, node, keywords)
                            THEN FirstFollowingOfType(tree, node, "bullet_list")
                            ELSE 0
                 IN IF nxt # 0 THEN ListItems(tree, nxt) ELSE Scan(Tail(w))
    IN Scan(walk(tree, 0))

\* the keyword lists build_jsonld passes
FeatureKeywords == << <<"f","e","a","t","u","r","e">>, <<"k","e","y"," ","f","e","a","t","u","r","e">> >>

PlatformKeywords == << <<"s","u","p","p","o","r","t","e","d"," ","p","l","a","t","f","o","r","m">>, <<"c","o","m","p","a","t","i","b","i","l","i","t","y">> >>

(***************************************************************************)
(* query.py: JSON-LD navigation helpers and the field registry.            *)
(***************************************************************************)
graph_nodes(d) == Get(d, "@graph", PyList(<<>>))

\* types of a node as project_node reads them: a str becomes [str]
TypesOf(n) ==
    LET types == Get(n, "@type", PyList(<<>>))
    IN IF types.t = "str" THEN <<types>> ELSE types.v

\* "SoftwareApplication" in types
IsProject(n) ==
    \E i \in 1..Len(TypesOf(n)) : PyEq(TypesOf(n)[i], PyStr(<<"S","o","f","t","w","a","r","e","A","p","p","l","i","c","a","t","i","o","n">>))

project_node(d) == FirstOf(SelectSeq(graph_nodes(d).v, IsProject), EmptyDict)

node_by_id(d, node_id) ==
    FirstOf(SelectSeq(graph_nodes(d).v, LAMBDA n : PyEq(Get(n, "@id", PyNone), node_id)),
            EmptyDict)

\* [node_by_id(doc, pid) for pid in proj.get("hasPart", [])]
PartsOf(d) ==
    LET parts == Get(project_node(d), "hasPart", PyList(<<>>)).v
    IN [i \in 1..Len(parts) |-> node_by_id(d, parts[i])]

install_node_AnyHowTo(d) ==
    FirstOf(SelectSeq(graph_nodes(d).v,
                      LAMBDA n : PyEq(Get(n, "@type", PyNone), PyStr(<<"H","o","w","T","o">>))),
            EmptyDict)

install_node(d) ==
    FirstOf(SelectSeq(PartsOf(d),
                      LAMBDA n : PyEq(Get(n, "@type", PyNone), PyStr(<<"H","o","w","T","o">>))),
            EmptyDict)

itemlist_by_name(d, keyword) ==
    FirstOf(SelectSeq(graph_nodes(d).v,
                      LAMBDA n : /\ PyEq(Get(n, "@type", PyNone), PyStr(<<"I","t","e","m","L","i","s","t">>))
                                 /\ Contains(Lower(PyOr(Get(n, "name", PyNone), PyStr(<<>>)).v),
                                             Lower(keyword))),
            EmptyDict)

example_nodes(d) ==
    SelectSeq(PartsOf(d),
              LAMBDA n : PyEq(Get(n, "@type", PyNone), PyStr(<<"C","r","e","a","t","i","v","e","W","o","r","k">>)))

license_text(lic) ==
    IF lic.t = "dict" /\ "@id" \in DOMAIN lic.v THEN lic.v["@id"]
    ELSE IF lic.t = "str" THEN lic
    ELSE PyStr(<<>>)

\* sep.join(l) for a list l of tagged str
JoinList(sep, l) == PyStr(Join(sep, [i \in 1..Len(l) |-> l[i].v]))

\* "\n".join(li.get("name","") for li in node.get("itemListElement", []) if isinstance(li, dict))
ItemNames(node) ==
    LET els == SelectSeq(Get(node, "itemListElement", PyList(<<>>)).v,
                         LAMBDA li : li.t = "dict")
    IN JoinList(<<"\n">>, [i \in 1..Len(els) |-> Get(els[i], "name", PyStr(<<>>))])

\* FIELDS[i][0]: the labels, in registry order
FieldLabels ==
    << <<"p","r","o","j","e","c","t",":","n","a","m","e">>, <<"p","r","o","j","e","c","t",":","d","e","s","c","r","i","p","t","i","o","n">>, <<"i","n","s","t","a","l","l",":","c","o","m","m","a","n","d","s">>,
       <<"f","e","a","t","u","r","e","s",":","l","i","s","t">>, <<"p","l","a","t","f","o","r","m","s",":","l","i","s","t">>, <<"e","x","a","m","p","l","e","s",":","c","o","d","e">>,
       <<"p","r","o","j","e","c","t",":","l","i","c","e","n","s","e">>, <<"p","r","o","j","e","c","t",":","t","o","p","i","c","s">> >>

\* FIELDS[i][1](g): the getter of the i-th field
Getter(i, g) ==
    CASE i = 1 -> Get(project_node(g), "name", PyNone)
      [] i = 2 -> Get(project_node(g), "description", PyNone)
      [] i = 3 -> JoinList(<<"\n">>,
                           PyOr(Get(install_node(g), "tool", PyList(<<>>)), PyList(<<>>)).v)
      [] i = 4 -> ItemNames(itemlist_by_name(g, <<"f","e","a","t","u","r","e">>))
      [] i = 5 -> ItemNames(itemlist_by_name(g, <<"p","l","a","t","f","o","r","m">>))
      [] i = 6 -> LET ex == example_nodes(g)
                  IN JoinList(<<"\n", "\n">>,
                              [j \in 1..Len(ex) |-> Get(ex[j], "text", PyStr(<<>>))])
      [] i = 7 -> license_text(Get(project_node(g), "license", PyNone))
      [] i = 8 -> JoinList(<<",", " ">>,
                           PyOr(Get(project_node(g), "applicationCategory", PyList(<<>>)),
                                PyList(<<>>)).v)

(***************************************************************************)
(* query.py: retrieval config and retrieval logic.                         *)
(***************************************************************************)
\* the items of INTENT_KEYWORDS, in the order of the dict
INTENT_KEYWORDS ==
    << [intent |-> "purpose",
        keys |-> << <<"w","h","a","t"," ","i","s">>, <<"w","h","a","t"," ","d","o","e","s">>, <<"p","u","r","p","o","s","e">>, <<"a","b","o","u","t">>, <<"o","v","e","r","v","i","e","w">> >>],
       [intent |-> "install",
        keys |-> << <<"i","n","s","t","a","l","l">>, <<"i","n","s","t","a","l","l","a","t","i","o","n">>, <<"s","e","t","u","p">>, <<"p","i","p">>, <<"h","o","w"," ","t","o"," ","i","n","s","t","a","l","l">> >>],
       [intent |-> "example",
        keys |-> << <<"e","x","a","m","p","l","e">>, <<"u","s","a","g","e">>, <<"c","o","d","e">>, <<"s","n","i","p","p","e","t">>, <<"h","o","w"," ","t","o"," ","u","s","e">> >>],
       [intent |-> "features",
        keys |-> << <<"f","e","a","t","u","r","e">>, <<"c","a","p","a","b","i","l","i","t","y">>, <<"h","i","g","h","l","i","g","h","t","s">> >>],
       [intent |-> "platforms",
        keys |-> << <<"p","l","a","t","f","o","r","m">>, <<"s","u","p","p","o","r","t","e","d">>, <<"p","y","t","h","o","n"," ","v","e","r","s","i","o","n">>, <<"o","s">>,
                    <<"o","p","e","r","a","t","i","n","g"," ","s","y","s","t","e","m">>, <<"a","r","c","h","i","t","e","c","t","u","r","e">> >>],
       [intent |-> "license",
        keys |-> << <<"l","i","c","e","n","s","e">>, <<"l","i","c","e","n","c","e">> >>],
       [intent |-> "topics",
        keys |-> << <<"t","o","p","i","c">>, <<"c","a","t","e","g","o","r","y">>, <<"t","a","g","s">>, <<"k","e","y","w","o","r","d","s">> >>] >>

INTENT_FIELD_WEIGHTS ==
    ("purpose" :> ((<<"p","r","o","j","e","c","t",":","d","e","s","c","r","i","p","t","i","o","n">> :> 3) @@ (<<"p","r","o","j","e","c","t",":","n","a","m","e">> :> 1)))
    @@ ("install" :> (<<"i","n","s","t","a","l","l",":","c","o","m","m","a","n","d","s">> :> 3))
    @@ ("example" :> (<<"e","x","a","m","p","l","e","s",":","c","o","d","e">> :> 3))
    @@ ("features" :> (<<"f","e","a","t","u","r","e","s",":","l","i","s","t">> :> 3))
    @@ ("platforms" :> (<<"p","l","a","t","f","o","r","m","s",":","l","i","s","t">> :> 3))
    @@ ("license" :> (<<"p","r","o","j","e","c","t",":","l","i","c","e","n","s","e">> :> 3))
    @@ ("topics" :> (<<"p","r","o","j","e","c","t",":","t","o","p","i","c","s">> :> 3))

\* INTENT_FIELD_WEIGHTS.get(intent, {}).get(label, 0)
WeightOf(intent, label) ==
    IF intent \in DOMAIN INTENT_FIELD_WEIGHTS
    THEN IF label \in DOMAIN INTENT_FIELD_WEIGHTS[intent]
         THEN INTENT_FIELD_WEIGHTS[intent][label]
         ELSE 0
    ELSE 0

RECURSIVE SumSeq(_)
SumSeq(l) == IF l = <<>> THEN 0 ELSE Head(l) + SumSeq(Tail(l))

tokenize(text) == LET ts == Split(text) IN [i \in 1..Len(ts) |-> Lower(ts[i])]

\* score_chunk(query, text), text a tagged value
score_chunk(query, text) ==
    IF ~Truthy(text) THEN 0
    ELSE LET qtokens == tokenize(query)
             ttokens == tokenize(text.v)
             tf == [t \in { ttokens[j] : j \in 1..Len(ttokens) } |->
                      Cardinality({ j \in 1..Len(ttokens) : ttokens[j] = t })]
         IN SumSeq([i \in 1..Len(qtokens) |->
                      IF qtokens[i] \in DOMAIN tf THEN tf[qtokens[i]] ELSE 0])

guess_intents_NoDefault(query) ==
    LET ql == Lower(query)
        hit == SelectSeq(INTENT_KEYWORDS,
                         LAMBDA e : \E k \in 1..Len(e.keys) : Contains(ql, e.keys[k]))
    IN [i \in 1..Len(hit) |-> hit[i].intent]

\* guess_intents(query): hits or ["purpose"]
guess_intents(query) ==
    LET ql == Lower(query)
        hit == SelectSeq(INTENT_KEYWORDS,
                         LAMBDA e : \E k \in 1..Len(e.keys) : Contains(ql, e.keys[k]))
        hits == [i \in 1..Len(hit) |-> hit[i].intent]
    IN IF hits # <<>> THEN hits ELSE <<"purpose">>

\* s.split(sep)[0]: s up to the first occurrence of sep
FirstPiece(s, sep) ==
    LET at == { i \in 0..(Len(s) - Len(sep)) : SubSeq(s, i + 1, i + Len(sep)) = sep }
    IN IF at = {} THEN s ELSE SubSeq(s, 1, CHOOSE i \in at : \A j \in at : i <= j)

\* format_answer(label, content): the prettified label, a line of as many
\* dashes, and the stripped content; both arguments str
format_answer(label, content) ==
    LET arrow == <<" ","â","\\u2020","\\u2019"," ">>
        pretty_label == Title(Replace(Replace(label, ":", arrow), "_", <<" ">>))
    IN pretty_label \o <<"\n">> \o [i \in 1..Len(pretty_label) |-> "-"]
       \o <<"\n">> \o Strip(content)

\* chunks: [(label, getter(doc)) for label, getter in FIELDS if getter(doc)]
Chunks(d) ==
    LET kept == SelectSeq([i \in 1..Len(FieldLabels) |-> i],
                          LAMBDA i : Truthy(Getter(i, d)))
    IN [k \in 1..Len(kept) |->
          [label |-> FieldLabels[kept[k]], content |-> Getter(kept[k], d)]]

\* weight after the loop of lines 146-148
WeightFor_FromZero(its, label) ==
    SumSeq([k \in 1..Len(its) |-> WeightOf(its[k], label)])

WeightFor(its, label) ==
    1 + SumSeq([k \in 1..Len(its) |-> WeightOf(its[k], label)])

\* total of line 149
Total(q, its, label, content) ==
    LET base == score_chunk(q, content)
        weight == WeightFor(its, label)
    IN IF base > 0 THEN base * weight
       ELSE IF \E i \in DOMAIN INTENT_FIELD_WEIGHTS :
                  \E k \in 1..Len(its) : its[k] = i
            THEN weight
            ELSE base

Replaces_OrEqual(total, best) == total >= best

\* line 150: total > best_score
Replaces(total, best) == total > best

PathExists_Always(f) == TRUE

\* line 129: path.exists()
PathExists(f) == f.state # "missing"

\* the labels of line 155
ListLike ==
    { <<"e","x","a","m","p","l","e","s",":","c","o","d","e">>, <<"i","n","s","t","a","l","l",":","c","o","m","m","a","n","d","s">>, <<"f","e","a","t","u","r","e","s",":","l","i","s","t">>, <<"p","l","a","t","f","o","r","m","s",":","l","i","s","t">> }

(***************************************************************************)
(* State.                                                                  *)
(***************************************************************************)
VARIABLES
    ast,            \* the parsed README: the tree an extractor or the builder reads
    call,           \* the extractor applied to ast, with its keywords argument
    ret,            \* what that call returned
    meta,           \* build_jsonld: the repository record of the GitHub API
    bpc,            \* fetch.main, build_jsonld: the statement to run next
    now,            \* build_jsonld: the timestamp taken on entry
    description,    \* build_jsonld: local
    install_cmds,   \* build_jsonld: local
    features,       \* build_jsonld: local
    platforms,      \* build_jsonld: local
    graph,          \* build_jsonld: local; root is graph[1]
    doc,            \* the JSON-LD document build_jsonld returns / query.main loads
    question,       \* query.py: args.question
    intents,        \* query.py: what guess_intents returned for question
    inserted,       \* the intent whose trigger was last inserted into question
    file,           \* what is stored at args.out of fetch.py, args.file of query.py
    qpc,            \* query.main: the statement to run next
    chunks,         \* query.main: local
    idx,            \* query.main: position of the scoring loop in chunks
    best_label,     \* query.main: local
    best_content,   \* query.main: local
    best_score,     \* query.main: local
    output,         \* query.main: what was printed, or the exception raised
    ran             \* query.main: the phases run so far

extractVars == <<call, ret>>

buildVars == <<meta, bpc, now, description, install_cmds, features, platforms, graph>>

intentVars == <<question, intents, inserted>>

queryVars == <<file, qpc, chunks, idx, best_label, best_content, best_score, output, ran>>

vars == <<ast, call, ret, meta, bpc, now, description, install_cmds, features,
          platforms, graph, doc, question, intents, inserted, file, qpc, chunks,
          idx, best_label, best_content, best_score, output, ran>>

NoCall == [fn |-> "none", keywords |-> <<>>]

\* the builder at rest
BuildIdle ==
    /\ meta = PyNone /\ bpc = "idle" /\ now = PyNone
    /\ description = PyNone /\ install_cmds = PyNone
    /\ features = PyNone /\ platforms = PyNone /\ graph = <<>>

\* no extractor called on its own
ExtractIdle == call = NoCall /\ ret = PyNone

\* output: the kind of message, the label answered (the exception's name
\* when one was raised) and the text format_answer gave
NoOutput == [msg |-> "none", label |-> <<>>, text |-> <<>>]

NoFile == [state |-> "none", value |-> PyNone]

\* no question asked
IntentIdle == question = <<>> /\ intents = PyNone /\ inserted = "none"

\* query.main not started
QueryLocalsIdle ==
    /\ qpc = "idle" /\ chunks = <<>> /\ idx = 0
    /\ best_label = PyNone /\ best_content = PyNone /\ best_score = 0
    /\ output = NoOutput /\ ran = {}

\* no file involved, query.main not started
QueryIdle == file = NoFile /\ QueryLocalsIdle

(***************************************************************************)
(* The extractors, each applied to a document.                             *)
(***************************************************************************)
InitExtract ==
    /\ ast \in Documents(Blocks, MaxBlocks)
    /\ call = NoCall
    /\ ret = PyNone
    /\ BuildIdle
    /\ doc = PyNone
    /\ IntentIdle /\ QueryIdle

CallFirstPara ==
    /\ call = NoCall
    /\ call' = [fn |-> "first_para_after_title", keywords |-> <<>>]
    /\ ret' = first_para_after_title(ast)
    /\ UNCHANGED <<ast, buildVars, doc, intentVars, queryVars>>

CallFindInstallCmds ==
    /\ call = NoCall
    /\ call' = [fn |-> "find_install_cmds", keywords |-> <<>>]
    /\ ret' = find_install_cmds(ast)
    /\ UNCHANGED <<ast, buildVars, doc, intentVars, queryVars>>

CallListAfterHeading ==
    /\ call = NoCall
    /\ \E keywords \in {FeatureKeywords, PlatformKeywords} :
          /\ call' = [fn |-> "list_after_heading", keywords |-> keywords]
          /\ ret' = list_after_heading(ast, keywords)
    /\ UNCHANGED <<ast, buildVars, doc, intentVars, queryVars>>

NextExtract == CallFirstPara \/ CallFindInstallCmds \/ CallListAfterHeading

SpecExtract == InitExtract /\ [][NextExtract]_vars

(***************************************************************************)
(* Claims about the extractors (checked under SpecExtract).                *)
(***************************************************************************)
Min(S) == CHOOSE x \in S : \A y \in S : x <= y

\* the depth of the heading n as Markdown has it: 1 for "# ", 2 for "## "
HeadingTags == << "h1", "h2", "h3", "h4", "h5", "h6" >>

HeadingDepth(n) == CHOOSE d \in DOMAIN HeadingTags : HeadingTags[d] = ast[n].tag

\* the text of the heading or paragraph n: the content of its inline child
InlineText(n) ==
    LET ch == Children(ast, n)
    IN IF ch # <<>> /\ ast[ch[1]].type = "inline" THEN ast[ch[1]].content ELSE <<>>

\* the level-2/3 headings whose lowercased text contains a keyword of the call
MatchingHeadings ==
    { n \in 1..Len(ast) :
        /\ ast[n].type = "heading" /\ HeadingDepth(n) \in {2, 3}
        /\ \E k \in 1..Len(call.keywords) :
              Contains(Lower(InlineText(n)), Lower(call.keywords[k])) }

\* the following siblings of n of the given types
SiblingsAfter(n, types) ==
    { m \in 1..Len(ast) :
        m > n /\ ast[m].parent = ast[n].parent /\ ast[m].type \in types }

\* the node of S that root.walk() yields first
FirstInWalk(S) == SelectSeq(walk(ast, 0), LAMBDA n : n \in S)[1]

\* C3 as stated: list_after_heading returns the items of the first bullet
\* list among the following siblings of the first level-2 or level-3 heading
\* whose lowercased text contains a keyword, and the empty list when there is
\* no such heading or that heading has no bullet list beside it.  The code
\* returns the empty list for every README: it reads the heading's text from
\* node.content, which is empty for a heading (the text is in the inline
\* child), and the heading's depth from node.level, which is the nesting
\* depth of the token.
C3_FirstMatchOnly ==
    call.fn = "list_after_heading" =>
        IF MatchingHeadings = {} THEN ret = PyList(<<>>)
        ELSE LET lists == SiblingsAfter(FirstInWalk(MatchingHeadings), {"bullet_list"})
             IN IF lists = {} THEN ret = PyList(<<>>)
                ELSE ret = ListItems(ast, Min(lists))

\* the level-1 headings of the document
TitleHeadings ==
    { n \in 1..Len(ast) : ast[n].type = "heading" /\ HeadingDepth(n) = 1 }

\* C4 as stated: first_para_after_title returns the trimmed text of the first
\* paragraph among the following siblings of the first level-1 heading, and
\* None when there is no level-1 heading or no paragraph follows it before
\* the next heading.  The code returns None for every README: node.level of
\* a heading among the root's children is 0, never 1.
C4_StopsAtNextHeading ==
    call.fn = "first_para_after_title" =>
        IF TitleHeadings = {} THEN ret = PyNone
        ELSE LET h == FirstInWalk(TitleHeadings)
                 paras == SiblingsAfter(h, {"paragraph"})
                 heads == SiblingsAfter(h, {"heading"})
             IN IF paras = {} \/ (heads # {} /\ Min(heads) < Min(paras))
                THEN ret = PyNone
                ELSE ret = PyStr(Strip(InlineText(Min(paras))))

\* the occurrences <<position in the walk w, line number, stripped line>> of
\* a line containing "pip install" in a fenced block
CmdOccurrencesIn(w) ==
    UNION { LET lines == SplitLines(ast[w[p]].content)
            IN { <<p, i, Strip(lines[i])>> :
                   i \in { j \in 1..Len(lines) : Contains(lines[j], PipInstall) } } :
            p \in { q \in 1..Len(w) : NodeType(ast, w[q]) = "fence" } }

CmdOccurrences == CmdOccurrencesIn(walk(ast, 0))

Before(o1, o2) == o1[1] < o2[1] \/ (o1[1] = o2[1] /\ o1[2] < o2[2])

FirstOccurrence(occ, line) ==
    CHOOSE o \in occ : o[3] = line /\ \A p \in occ : p[3] = line => ~Before(p, o)

\* C5: find_install_cmds returns exactly the stripped lines containing
\* "pip install" of the fenced blocks, each distinct line once, in the order
\* of their first appearance in the walk; the empty list when there are none
C5_InstallCommands ==
    call.fn = "find_install_cmds" =>
        LET occ == CmdOccurrences
        IN /\ ret.t = "list"
           /\ { ret.v[i] : i \in 1..Len(ret.v) } = { PyStr(o[3]) : o \in occ }
           /\ \A i, j \in 1..Len(ret.v) : i < j =>
                 /\ ret.v[i] # ret.v[j]
                 /\ Before(FirstOccurrence(occ, ret.v[i].v),
                           FirstOccurrence(occ, ret.v[j].v))

\* C5 witness: two distinct commands were returned from a document that repeats one of
\* them and holds a fenced block without "pip install"
C5_Witness ==
    /\ call.fn = "find_install_cmds"
    /\ Len(ret.v) = 2
    /\ Cardinality(CmdOccurrences) > 2
    /\ \E n \in 1..Len(ast) :
          ast[n].type = "fence" /\ ~Contains(ast[n].content, PipInstall)

(***************************************************************************)
(* fetch.py: build_jsonld(meta, ast), statement by statement.              *)
(***************************************************************************)
\* f"{x}"
Format(x) == IF x.t = "str" THEN x.v ELSE <<"N","o","n","e">>

\* d[k] = v on a tagged dict
DictSet(d, k, v) == PyDict((k :> v) @@ d.v)

CONTEXT ==
    PyDict(("@vocab" :> PyStr(<<"h","t","t","p",":","/","/","s","c","h","e","m","a",".","o","r","g","/">>))
        @@ ("schema" :> PyStr(<<"h","t","t","p",":","/","/","s","c","h","e","m","a",".","o","r","g","/">>))
        @@ ("doap" :> PyStr(<<"h","t","t","p",":","/","/","u","s","e","f","u","l","i","n","c",".","c","o","m","/","n","s","/","d","o","a","p","#">>))
        @@ ("dcterms" :> PyStr(<<"h","t","t","p",":","/","/","p","u","r","l",".","o","r","g","/","d","c","/","t","e","r","m","s","/">>))
        @@ ("spdx" :> PyStr(<<"h","t","t","p","s",":","/","/","s","p","d","x",".","o","r","g","/","l","i","c","e","n","s","e","s","/">>)))

\* the repository records given to the builder
MetaFoo ==
    PyDict(("html_url" :> PyStr(<<"h","t","t","p","s",":","/","/","x","/","F","o","o">>))
        @@ ("name" :> PyStr(<<"F","o","o">>))
        @@ ("description" :> PyNone)
        @@ ("license" :> PyNone)
        @@ ("topics" :> PyList(<<>>))
        @@ ("language" :> PyStr(<<"P","y","t","h","o","n">>)))

MetaFull ==
    PyDict(("html_url" :> PyStr(<<"h","t","t","p","s",":","/","/","x","/","F","o","o">>))
        @@ ("name" :> PyStr(<<"F","o","o">>))
        @@ ("description" :> PyStr(<<"F","o","o"," ","S","D","K">>))
        @@ ("license" :> PyDict("spdx_id" :> PyStr(<<"M","I","T">>)))
        @@ ("topics" :> PyList(<<PyStr(<<"e","n","e","r","g","y">>), PyStr(<<"s","d","k">>)>>))
        @@ ("language" :> PyNone))

\* an empty description, a URL that itself ends in a fragment, and no
\* license, topics or language key
MetaBare ==
    PyDict(("html_url" :> PyStr(<<"h","t","t","p","s",":","/","/","x","/","F","o","o","#","f","e","a","t","u","r","e","s">>))
        @@ ("name" :> PyStr(<<"F","o","o">>))
        @@ ("description" :> PyStr(<<>>)))

Metas == { MetaFoo, MetaFull, MetaBare }

\* the values datetime.now(timezone.utc).isoformat() may give
Clock == { PyStr(<<"2","0","2","4","-","0","1","-","0","1","T","0","0",":","0","0",":","0","0","+","0","0",":","0","0">>) }

\* ### Supported Platforms
BlockH3Platforms ==
    << Node("heading", "h3", 0, <<>>, 0),
       Node("inline", "", 1, <<"S","u","p","p","o","r","t","e","d"," ","P","l","a","t","f","o","r","m","s">>, 1),
       Node("text", "", 0, <<"S","u","p","p","o","r","t","e","d"," ","P","l","a","t","f","o","r","m","s">>, 2) >>

\* - Linux
BlockListLinux ==
    << Node("bullet_list", "ul", 0, <<>>, 0),
       Node("list_item", "li", 1, <<>>, 1),
       Node("paragraph", "p", 2, <<>>, 2),
       Node("inline", "", 3, <<"L","i","n","u","x">>, 3),
       Node("text", "", 0, <<"L","i","n","u","x">>, 4) >>

\* the title and the paragraph under it
SectionTitle == Assemble(<<BlockH1, BlockPara>>, 0)

\* a heading with the bullet list of its section
SectionFeatures == Assemble(<<BlockH2Features, BlockList>>, 0)

SectionPlatforms == Assemble(<<BlockH3Platforms, BlockListLinux>>, 0)

BuildBlocks ==
    { SectionTitle, BlockFencePip, SectionFeatures, SectionPlatforms,
      BlockQuoteH1, BlockItemFeatures }

\* the root dict of lines 115-125
Root(m, desc) ==
    LET repo_url == m.v["html_url"]
        license_info == Get(m, "license", PyNone)
        topics == Get(m, "topics", PyList(<<>>))
        language == Get(m, "language", PyStr(<<"P","y","t","h","o","n">>))
    IN PyDict(("@id" :> repo_url)
           @@ ("@type" :> PyList(<<PyStr(<<"S","o","f","t","w","a","r","e","A","p","p","l","i","c","a","t","i","o","n">>), PyStr(<<"d","o","a","p",":","P","r","o","j","e","c","t">>)>>))
           @@ ("name" :> m.v["name"])
           @@ ("description" :> desc)
           @@ ("codeRepository" :> repo_url)
           @@ ("programmingLanguage" :> language)
           @@ ("applicationCategory" :> PyOr(topics, PyNone))
           @@ ("license" :>
                 IF Truthy(license_info)
                 THEN PyDict("@id" :> PyStr(<<"h","t","t","p","s",":","/","/","s","p","d","x",".","o","r","g","/","l","i","c","e","n","s","e","s","/">>
                                            \o Format(license_info.v["spdx_id"])
                                            \o <<".","h","t","m","l">>))
                 ELSE PyNone)
           @@ ("hasPart" :> PyList(<<>>)))

\* howto_id, feat_id, plat_id
howto_id_Root(m) == PyStr(Format(m.v["html_url"]))

howto_id(m) == PyStr(Format(m.v["html_url"]) \o <<"#","h","o","w","t","o","-","i","n","s","t","a","l","l">>)

feat_id(m) == PyStr(Format(m.v["html_url"]) \o <<"#","f","e","a","t","u","r","e","s">>)

plat_id(m) == PyStr(Format(m.v["html_url"]) \o <<"#","s","u","p","p","o","r","t","e","d","-","p","l","a","t","f","o","r","m","s">>)

HasPartAppend_Dropped(root, id) == root

\* root["hasPart"].append(id)
HasPartAppend(root, id) ==
    DictSet(root, "hasPart", PyList(Append(root.v["hasPart"].v, id)))

\* the HowTo node of lines 132-137
HowToNode(m, cmds) ==
    PyDict(("@id" :> howto_id(m))
        @@ ("@type" :> PyStr(<<"H","o","w","T","o">>))
        @@ ("name" :> PyStr(<<"I","n","s","t","a","l","l"," ">> \o Format(m.v["name"])))
        @@ ("tool" :> cmds))

\* the ItemList node of lines 142-150 and 155-163
ItemListNode(id, name, items) ==
    PyDict(("@id" :> id)
        @@ ("@type" :> PyStr(<<"I","t","e","m","L","i","s","t">>))
        @@ ("name" :> PyStr(name))
        @@ ("itemListElement" :>
              PyList([i \in 1..Len(items.v) |->
                        PyDict(("@type" :> PyStr(<<"L","i","s","t","I","t","e","m">>))
                            @@ ("position" :> PyInt(i))
                            @@ ("name" :> items.v[i]))])))

\* what is at args.out before fetch.py runs: nothing, or text that is no JSON
OutFiles ==
    { [state |-> "missing", value |-> PyNone],
      [state |-> "invalid", value |-> PyNone] }

\* json.loads of the text json.dump writes for x: None, str and int are
\* written as null, a string and a number, a list as an array, and a dict
\* as an object whose keys are the dict's keys (all str here)
RECURSIVE JsonValue(_)
JsonValue(x) ==
    IF x.t = "list" THEN PyList([i \in 1..Len(x.v) |-> JsonValue(x.v[i])])
    ELSE IF x.t = "dict" THEN PyDict([k \in DOMAIN x.v |-> JsonValue(x.v[k])])
    ELSE x

InitBuild ==
    /\ ast \in Documents(BuildBlocks, MaxBuildBlocks)
    /\ meta \in Metas
    /\ bpc = "start"
    /\ now = PyNone
    /\ description = PyNone /\ install_cmds = PyNone
    /\ features = PyNone /\ platforms = PyNone
    /\ graph = <<>>
    /\ doc = PyNone
    /\ file \in OutFiles
    /\ ExtractIdle /\ IntentIdle /\ QueryLocalsIdle

\* lines 103-113
BuildEnter ==
    /\ bpc = "start"
    /\ now' \in Clock
    /\ description' = PyOr(meta.v["description"], first_para_after_title(ast))
    /\ install_cmds' = find_install_cmds(ast)
    /\ features' = list_after_heading(ast, FeatureKeywords)
    /\ platforms' = list_after_heading(ast, PlatformKeywords)
    /\ bpc' = "root"
    /\ UNCHANGED <<ast, extractVars, meta, graph, doc, intentVars, queryVars>>

\* lines 115-127
BuildRoot ==
    /\ bpc = "root"
    /\ graph' = << Root(meta, description) >>
    /\ bpc' = "howto"
    /\ UNCHANGED <<ast, extractVars, meta, now, description, install_cmds,
                   features, platforms, doc, intentVars, queryVars>>

BuildLocalsUnchanged ==
    UNCHANGED <<ast, extractVars, meta, now, description, install_cmds,
                features, platforms, doc, intentVars, queryVars>>

\* lines 129-131
BuildHowToPart ==
    /\ bpc = "howto"
    /\ \/ /\ Truthy(install_cmds)
          /\ graph' = [graph EXCEPT ![1] = HasPartAppend(graph[1], howto_id(meta))]
          /\ bpc' = "howto_node"
       \/ /\ ~Truthy(install_cmds)
          /\ bpc' = "features"
          /\ UNCHANGED graph
    /\ BuildLocalsUnchanged

\* lines 132-137
BuildHowToNode ==
    /\ bpc = "howto_node"
    /\ graph' = Append(graph, HowToNode(meta, install_cmds))
    /\ bpc' = "features"
    /\ BuildLocalsUnchanged

\* lines 139-150: if features: the id is appended and the ItemList node made
BuildFeatures ==
    /\ bpc = "features"
    /\ graph' = IF Truthy(features)
                THEN Append([graph EXCEPT ![1] = HasPartAppend(graph[1], feat_id(meta))],
                            ItemListNode(feat_id(meta), <<"K","e","y"," ","F","e","a","t","u","r","e","s">>, features))
                ELSE graph
    /\ bpc' = "platforms"
    /\ BuildLocalsUnchanged

\* lines 152-163: if platforms: likewise
BuildPlatforms ==
    /\ bpc = "platforms"
    /\ graph' = IF Truthy(platforms)
                THEN Append([graph EXCEPT ![1] = HasPartAppend(graph[1], plat_id(meta))],
                            ItemListNode(plat_id(meta), <<"S","u","p","p","o","r","t","e","d"," ","P","l","a","t","f","o","r","m","s">>, platforms))
                ELSE graph
    /\ bpc' = "return"
    /\ BuildLocalsUnchanged

\* lines 165-169
BuildReturn ==
    /\ bpc = "return"
    /\ doc' = PyDict(("@context" :> CONTEXT)
                  @@ ("@graph" :> PyList(graph))
                  @@ ("dcterms:modified" :> now))
    /\ bpc' = "done"
    /\ UNCHANGED <<ast, extractVars, meta, now, description, install_cmds,
                   features, platforms, graph, intentVars, queryVars>>

\* fetch.main, lines 188-190: the document is written to args.out, whatever
\* was there before
Save ==
    /\ bpc = "done"
    /\ file' = [state |-> "json", value |-> JsonValue(doc)]
    /\ bpc' = "saved"
    /\ UNCHANGED <<ast, extractVars, meta, now, description, install_cmds,
                   features, platforms, graph, doc, intentVars, qpc, chunks, idx,
                   best_label, best_content, best_score, output, ran>>

NextBuild ==
    \/ BuildEnter \/ BuildRoot
    \/ BuildHowToPart \/ BuildHowToNode
    \/ BuildFeatures \/ BuildPlatforms
    \/ BuildReturn \/ Save

SpecBuild == InitBuild /\ [][NextBuild]_vars

(***************************************************************************)
(* Claims about the builder (checked under SpecBuild).                     *)
(***************************************************************************)
\* the @id values of the nodes of the graph, in order
GraphIds == [i \in 1..Len(graph) |-> Get(graph[i], "@id", PyNone)]

\* root["hasPart"], once the root exists
HasPart == IF graph = <<>> THEN <<>> ELSE graph[1].v["hasPart"].v

IsPrefix(a, b) == Len(a) <= Len(b) /\ SubSeq(b, 1, Len(a)) = a

\* C2: in the document the builder returns, every id of the Project node's
\* hasPart resolves (node_by_id) to a node and is the @id of exactly one
\* node, no auxiliary node has a hasPart key, and the Project node is the
\* only node that has one
C2_HasPartResolves ==
    bpc \in {"done", "saved"} =>
        LET nodes == graph_nodes(doc).v
            proj == project_node(doc)
            parts == Get(proj, "hasPart", PyList(<<>>)).v
        IN /\ proj = nodes[1]
           /\ \A k \in 1..Len(parts) :
                 /\ node_by_id(doc, parts[k]) # EmptyDict
                 /\ Cardinality({ i \in 1..Len(nodes) :
                                    PyEq(Get(nodes[i], "@id", PyNone), parts[k]) }) = 1
                 /\ node_by_id(doc, parts[k]) # proj
           /\ { i \in 1..Len(nodes) : "hasPart" \in DOMAIN nodes[i].v } = {1}
           /\ bpc = "saved" => file = [state |-> "json", value |-> doc]

\* C2 witness: a document with the Project node and the HowTo node it
\* names in hasPart was returned
C2_Witness ==
    /\ bpc = "done"
    /\ Len(graph_nodes(doc).v) = 2
    /\ Get(project_node(doc), "hasPart", PyList(<<>>)).v = <<howto_id(meta)>>
    /\ node_by_id(doc, howto_id(meta)).v["@type"] = PyStr(<<"H","o","w","T","o">>)

\* the ids of the auxiliary nodes whose extraction from ast is non-empty
ExpectedParts ==
    (IF Len(find_install_cmds(ast).v) > 0 THEN <<howto_id(meta)>> ELSE <<>>)
    \o (IF Len(list_after_heading(ast, FeatureKeywords).v) > 0 THEN <<feat_id(meta)>> ELSE <<>>)
    \o (IF Len(list_after_heading(ast, PlatformKeywords).v) > 0 THEN <<plat_id(meta)>> ELSE <<>>)

\* C7: the final hasPart is the subsequence of [#howto-install, #features,
\* #supported-platforms] whose extraction was non-empty, the graph is the
\* Project node followed by those nodes in that order, each holding what was
\* extracted, and every intermediate hasPart is a prefix of the final one
C7_AuxiliaryNodes ==
    LET expected == ExpectedParts
    IN /\ IsPrefix(HasPart, expected)
       /\ bpc \in {"return", "done", "saved"} =>
             /\ HasPart = expected
             /\ GraphIds = <<meta.v["html_url"]>> \o expected
             /\ IsProject(graph[1])
             /\ \A i \in 2..Len(graph) :
                   \/ /\ GraphIds[i] = howto_id(meta)
                      /\ graph[i].v["@type"] = PyStr(<<"H","o","w","T","o">>)
                      /\ graph[i].v["tool"] = find_install_cmds(ast)
                   \/ /\ GraphIds[i] = feat_id(meta)
                      /\ graph[i].v["@type"] = PyStr(<<"I","t","e","m","L","i","s","t">>)
                      /\ ItemNames(graph[i])
                           = JoinList(<<"\n">>, list_after_heading(ast, FeatureKeywords).v)
                   \/ /\ GraphIds[i] = plat_id(meta)
                      /\ graph[i].v["@type"] = PyStr(<<"I","t","e","m","L","i","s","t">>)
                      /\ ItemNames(graph[i])
                           = JoinList(<<"\n">>, list_after_heading(ast, PlatformKeywords).v)
       /\ bpc \in {"done", "saved"} => graph_nodes(doc).v = graph

\* C7 witness: a build, about to return, that made the HowTo node for the
\* commands found and no ItemList node, the two list extractions being empty
C7_Witness ==
    /\ bpc = "return"
    /\ install_cmds.v # <<>>
    /\ features = PyList(<<>>) /\ platforms = PyList(<<>>)
    /\ HasPart = <<howto_id(meta)>>
    /\ Len(graph) = 2

(***************************************************************************)
(* query.py: guess_intents on questions, and on questions grown by         *)
(* inserting a trigger of an intent of the current classification.         *)
(***************************************************************************)
IntentQuestions == { <<>>, <<"P","I","P">>, <<"c","O","d","e">>, <<"W","h","a","t"," ","O","S","?">>, <<"l","i","c","e","n","c","e">>, <<"h","e","l","l","o">> }

InitIntent ==
    /\ question \in IntentQuestions
    /\ intents = PyNone
    /\ inserted = "none"
    /\ ast = <<>> /\ doc = PyNone
    /\ ExtractIdle /\ BuildIdle /\ QueryIdle

\* intents = guess_intents(args.question)
Classify ==
    /\ intents = PyNone
    /\ intents' = PyList(guess_intents(question))
    /\ UNCHANGED <<ast, extractVars, buildVars, doc, question, inserted, queryVars>>

\* the question with a trigger of one of its intents inserted, classified anew
InsertTrigger ==
    /\ intents # PyNone
    /\ \E e \in { INTENT_KEYWORDS[i] : i \in 1..Len(INTENT_KEYWORDS) } :
       \E k \in 1..Len(e.keys) :
       \E at \in 0..Len(question) :
          /\ \E j \in 1..Len(intents.v) : intents.v[j] = e.intent
          /\ Len(question) + Len(e.keys[k]) <= MaxQuestionLen
          /\ question' = SubSeq(question, 1, at) \o e.keys[k]
                         \o SubSeq(question, at + 1, Len(question))
          /\ inserted' = e.intent
    /\ intents' = PyList(guess_intents(question'))
    /\ UNCHANGED <<ast, extractVars, buildVars, doc, queryVars>>

NextIntent == Classify \/ InsertTrigger

SpecIntent == InitIntent /\ [][NextIntent]_vars

(***************************************************************************)
(* query.py: main(), statement by statement.                               *)
(***************************************************************************)
UrlFoo == <<"h","t","t","p","s",":","/","/","x","/","F","o","o">>

\* the nodes of the saved graphs
NodeProject ==
    PyDict(("@id" :> PyStr(UrlFoo))
        @@ ("@type" :> PyList(<<PyStr(<<"S","o","f","t","w","a","r","e","A","p","p","l","i","c","a","t","i","o","n">>), PyStr(<<"d","o","a","p",":","P","r","o","j","e","c","t">>)>>))
        @@ ("name" :> PyStr(<<"F","o","o">>))
        @@ ("description" :> PyStr(<<"W","h","a","t"," ","F","o","o"," ","i","s",":"," ","a"," ","t","o","o","l"," ","t","o"," ","i","n","s","t","a","l","l">>))
        @@ ("applicationCategory" :> PyList(<<PyStr(<<"e","n","e","r","g","y">>), PyStr(<<"s","d","k">>)>>))
        @@ ("license" :> PyDict("@id" :> PyStr(<<"h","t","t","p","s",":","/","/","s","p","d","x",".","o","r","g","/","l","i","c","e","n","s","e","s","/","M","I","T",".","h","t","m","l">>)))
        @@ ("hasPart" :> PyList(<<PyStr(UrlFoo \o <<"#","h","o","w","t","o","-","i","n","s","t","a","l","l">>),
                                  PyStr(UrlFoo \o <<"#","f","e","a","t","u","r","e","s">>),
                                  PyStr(UrlFoo \o <<"#","e","x","a","m","p","l","e">>)>>)))

\* a project whose @type is a str and whose optional attributes are null
NodeProjectBare ==
    PyDict(("@id" :> PyStr(UrlFoo))
        @@ ("@type" :> PyStr(<<"S","o","f","t","w","a","r","e","A","p","p","l","i","c","a","t","i","o","n">>))
        @@ ("name" :> PyStr(<<"F","o","o">>))
        @@ ("description" :> PyNone)
        @@ ("applicationCategory" :> PyNone)
        @@ ("license" :> PyNone)
        @@ ("hasPart" :> PyList(<<PyStr(UrlFoo \o <<"#","h","o","w","t","o","-","i","n","s","t","a","l","l">>)>>)))

\* a project that has nothing but its type and its parts
NodeProjectAnon ==
    PyDict(("@type" :> PyList(<<PyStr(<<"S","o","f","t","w","a","r","e","A","p","p","l","i","c","a","t","i","o","n">>)>>))
        @@ ("hasPart" :> PyList(<<PyStr(UrlFoo \o <<"#","h","o","w","t","o","-","i","n","s","t","a","l","l">>)>>)))

NodeHowTo ==
    PyDict(("@id" :> PyStr(UrlFoo \o <<"#","h","o","w","t","o","-","i","n","s","t","a","l","l">>))
        @@ ("@type" :> PyStr(<<"H","o","w","T","o">>))
        @@ ("name" :> PyStr(<<"I","n","s","t","a","l","l"," ","F","o","o">>))
        @@ ("tool" :> PyList(<<PyStr(<<"p","i","p"," ","i","n","s","t","a","l","l"," ","f","o","o">>)>>)))

NodeFeatures ==
    ItemListNode(PyStr(UrlFoo \o <<"#","f","e","a","t","u","r","e","s">>), <<"K","e","y"," ","F","e","a","t","u","r","e","s">>,
                 PyList(<<PyStr(<<"F","a","s","t">>), PyStr(<<"S","m","a","l","l"," ","t","o","o","l">>)>>))

NodePlatforms ==
    ItemListNode(PyStr(UrlFoo \o <<"#","s","u","p","p","o","r","t","e","d","-","p","l","a","t","f","o","r","m","s">>), <<"S","u","p","p","o","r","t","e","d"," ","P","l","a","t","f","o","r","m","s">>,
                 PyList(<<PyStr(<<"L","i","n","u","x">>)>>))

NodeExample ==
    PyDict(("@id" :> PyStr(UrlFoo \o <<"#","e","x","a","m","p","l","e">>))
        @@ ("@type" :> PyStr(<<"C","r","e","a","t","i","v","e","W","o","r","k">>))
        @@ ("text" :> PyStr(<<" ","i","m","p","o","r","t"," ","f","o","o","\n","\n","f","o","o",".","i","n","s","t","a","l","l","(",")">>)))

\* not a project, yet carrying name, license and hasPart
NodeOther ==
    PyDict(("@id" :> PyStr(<<"h","t","t","p","s",":","/","/","x","/","O","t","h","e","r">>))
        @@ ("@type" :> PyList(<<PyStr(<<"d","o","a","p",":","P","r","o","j","e","c","t">>)>>))
        @@ ("name" :> PyStr(<<"O","t","h","e","r">>))
        @@ ("license" :> PyStr(<<"M","I","T">>))
        @@ ("hasPart" :> PyList(<<PyStr(UrlFoo \o <<"#","h","o","w","t","o","-","i","n","s","t","a","l","l">>),
                                  PyStr(UrlFoo \o <<"#","e","x","a","m","p","l","e">>)>>)))

GraphNodes ==
    { NodeProject, NodeProjectBare, NodeProjectAnon, NodeHowTo, NodeFeatures, NodePlatforms,
      NodeExample, NodeOther }

\* the JSON objects a saved graph file may hold: graphs of up to
\* MaxGraphNodes nodes, and an object without "@graph"
SavedDocs ==
    { PyDict("@graph" :> PyList(ns)) :
        ns \in UNION { [1..k -> GraphNodes] : k \in 0..MaxGraphNodes } }
    \cup { EmptyDict }

\* what is stored at args.file: nothing, text that is no JSON, or JSON
Files == OutFiles \cup { [state |-> "json", value |-> d] : d \in SavedDocs }

Questions ==
    { <<"H","o","w"," ","d","o"," ","I"," ","i","n","s","t","a","l","l"," ","t","h","i","s","?">>, <<"W","h","a","t"," ","i","s"," ","F","o","o">>, <<"x","y","z","z","y">>,
      <<"p","i","p"," ","i","n","s","t","a","l","l"," ","f","o","o"," ","l","i","c","e","n","s","e">>, <<"W","h","i","c","h"," ","O","S"," ","a","n","d"," ","t","o","p","i","c","s"," ","f","o","r"," ","F","o","o">>, <<"t","o","o","l"," ","t","o","o","l"," ","F","O","O">> }

Raised(exc) == [msg |-> "raised", label |-> exc, text |-> <<>>]

InitQuery ==
    /\ file \in Files
    /\ question \in Questions
    /\ qpc = "start"
    /\ doc = PyNone
    /\ intents = PyNone /\ inserted = "none"
    /\ chunks = <<>> /\ idx = 0
    /\ best_label = PyNone /\ best_content = PyNone /\ best_score = 0
    /\ output = NoOutput
    /\ ran = {}
    /\ ast = <<>>
    /\ ExtractIdle /\ BuildIdle

QueryLocalsUnchanged ==
    UNCHANGED <<ast, extractVars, buildVars, question, inserted, file>>

\* lines 128-131
CheckPath ==
    /\ qpc = "start"
    /\ \/ /\ ~PathExists(file)
          /\ output' = [msg |-> "cant_find", label |-> <<>>, text |-> <<>>]
          /\ qpc' = "done"
       \/ /\ PathExists(file)
          /\ qpc' = "load"
          /\ UNCHANGED output
    /\ UNCHANGED <<doc, intents, chunks, idx, best_label, best_content, best_score, ran>>
    /\ QueryLocalsUnchanged

\* line 133: path.read_text raises for no file, json.loads for no JSON
Load ==
    /\ qpc = "load"
    /\ \/ /\ file.state = "missing"
          /\ output' = Raised(<<"F","i","l","e","N","o","t","F","o","u","n","d","E","r","r","o","r">>)
          /\ qpc' = "raised"
          /\ UNCHANGED <<doc, ran>>
       \/ /\ file.state = "invalid"
          /\ output' = Raised(<<"J","S","O","N","D","e","c","o","d","e","E","r","r","o","r">>)
          /\ qpc' = "raised"
          /\ ran' = ran \cup {"parse"}
          /\ UNCHANGED doc
       \/ /\ file.state = "json"
          /\ doc' = file.value
          /\ qpc' = "intents"
          /\ ran' = ran \cup {"parse"}
          /\ UNCHANGED output
    /\ UNCHANGED <<intents, chunks, idx, best_label, best_content, best_score>>
    /\ QueryLocalsUnchanged

\* line 134
GuessIntents ==
    /\ qpc = "intents"
    /\ intents' = PyList(guess_intents(question))
    /\ qpc' = "chunks"
    /\ ran' = ran \cup {"classify"}
    /\ UNCHANGED <<doc, chunks, idx, best_label, best_content, best_score, output>>
    /\ QueryLocalsUnchanged

\* lines 137-143
GatherChunks ==
    /\ qpc = "chunks"
    /\ chunks' = Chunks(doc)
    /\ ran' = ran \cup {"extract"}
    /\ \/ /\ chunks' = <<>>
          /\ output' = [msg |-> "no_knowledge", label |-> <<>>, text |-> <<>>]
          /\ qpc' = "done"
          /\ UNCHANGED <<idx, best_label, best_content, best_score>>
       \/ /\ chunks' # <<>>
          /\ best_label' = PyNone /\ best_content' = PyNone /\ best_score' = -1
          /\ idx' = 1
          /\ qpc' = "score"
          /\ UNCHANGED output
    /\ UNCHANGED <<doc, intents>>
    /\ QueryLocalsUnchanged

\* lines 144-151: one turn of the loop over chunks
ScoreChunk ==
    /\ qpc = "score"
    /\ idx <= Len(chunks)
    /\ LET label == chunks[idx].label
           content == chunks[idx].content
           total == Total(question, intents.v, label, content)
       IN \/ /\ Replaces(total, best_score)
             /\ best_label' = PyStr(label)
             /\ best_content' = content
             /\ best_score' = total
          \/ /\ ~Replaces(total, best_score)
             /\ UNCHANGED <<best_label, best_content, best_score>>
    /\ idx' = idx + 1
    /\ ran' = ran \cup {"score"}
    /\ UNCHANGED <<doc, intents, chunks, qpc, output>>
    /\ QueryLocalsUnchanged

\* lines 153-159, the loop over
PrintAnswer ==
    /\ qpc = "score"
    /\ idx > Len(chunks)
    /\ \/ /\ Truthy(best_label)
          /\ best_content' =
                IF best_label.v \in ListLike
                THEN PyStr(Strip(FirstPiece(best_content.v, <<"\n", "\n">>)))
                ELSE best_content
          /\ output' = [msg |-> "answer", label |-> best_label.v,
                        text |-> format_answer(best_label.v, best_content'.v)]
       \/ /\ ~Truthy(best_label)
          /\ output' = [msg |-> "no_relevant", label |-> <<>>, text |-> <<>>]
          /\ UNCHANGED best_content
    /\ qpc' = "done"
    /\ UNCHANGED <<doc, intents, chunks, idx, best_label, best_score, ran>>
    /\ QueryLocalsUnchanged

NextQuery ==
    CheckPath \/ Load \/ GuessIntents \/ GatherChunks \/ ScoreChunk \/ PrintAnswer

SpecQuery == InitQuery /\ [][NextQuery]_vars

(***************************************************************************)
(* fetch.py, then query.py on the file it saved (args.out and args.file    *)
(* have the same default).  The doc of query.main is the doc variable from *)
(* Load on.                                                                *)
(***************************************************************************)
\* query.py is started with a question, once fetch.py has saved the graph
Ask ==
    /\ bpc = "saved" /\ qpc = "idle"
    /\ question' \in Questions
    /\ qpc' = "start"
    /\ UNCHANGED <<ast, extractVars, buildVars, doc, intents, inserted, file, chunks,
                   idx, best_label, best_content, best_score, output, ran>>

NextPipeline == NextBuild \/ Ask \/ NextQuery

InitPipeline == InitBuild /\ ast \in Documents(BuildBlocks, MaxPipelineBlocks)

SpecPipeline == InitPipeline /\ [][NextPipeline]_vars

(***************************************************************************)
(* Claims about the intent classifier (checked under SpecIntent).          *)
(***************************************************************************)
Range(l) == { l[i] : i \in 1..Len(l) }

IntentNames == { INTENT_KEYWORDS[i].intent : i \in 1..Len(INTENT_KEYWORDS) }

\* a trigger of the intent is a substring of the lowercased question
Triggered(intent) ==
    \E i \in 1..Len(INTENT_KEYWORDS) :
        /\ INTENT_KEYWORDS[i].intent = intent
        /\ \E k \in 1..Len(INTENT_KEYWORDS[i].keys) :
              Contains(Lower(question), INTENT_KEYWORDS[i].keys[k])

\* C6: the classified intents are never empty; when some trigger matches,
\* an intent is classified exactly when one of its triggers is a substring
\* of the lowercased question; when none matches the result is [purpose];
\* and an intent stays classified after one of its triggers is inserted
C6_IntentClassification ==
    intents # PyNone =>
        /\ intents.v # <<>>
        /\ (\E i \in IntentNames : Triggered(i)) =>
              \A i \in IntentNames : (i \in Range(intents.v)) <=> Triggered(i)
        /\ (\A i \in IntentNames : ~Triggered(i)) => intents.v = <<"purpose">>
        /\ inserted # "none" => inserted \in Range(intents.v)

\* C6 witness: "setup" was inserted into "PIP" and split it: install stays classified
\* though "pip" no longer occurs
C6_Witness ==
    /\ inserted = "install"
    /\ intents # PyNone /\ "install" \in Range(intents.v)
    /\ Contains(Lower(question), <<"s","e","t","u","p">>)
    /\ ~Contains(Lower(question), <<"p","i","p">>)
    /\ Contains(question, <<"P">>)

(***************************************************************************)
(* Claims about the retriever (checked under SpecQuery).                   *)
(***************************************************************************)
Terminated == qpc \in {"done", "raised"}

\* C8 as stated: a missing or malformed file is reported as not found
\* before any parsing, and nothing else runs
C8_MissingOrMalformedNotFound ==
    (file.state \in {"missing", "invalid"} /\ Terminated) =>
        output.msg = "cant_find" /\ ran = {}

\* C8 amended: a missing file is reported as not found before any parsing
\* attempt; a file that exists but holds no JSON is parsed, the parse raises
\* a JSON decode error, and that error is what the run ends with; in both
\* cases the run stops without classification, field extraction or scoring
C8_MissingNotFoundMalformedRaises ==
    /\ file.state \in {"missing", "invalid"} =>
          /\ qpc \in {"start", "load", "done", "raised"}
          /\ ran \subseteq {"parse"}
          /\ intents = PyNone /\ chunks = <<>> /\ best_label = PyNone
    /\ file.state = "missing" =>
          /\ qpc \in {"start", "done"}
          /\ ran = {}
          /\ qpc = "done" => output.msg = "cant_find"
    /\ (file.state = "invalid" /\ Terminated) =>
          /\ qpc = "raised"
          /\ output = Raised(<<"J","S","O","N","D","e","c","o","d","e","E","r","r","o","r">>)
          /\ ran = {"parse"}

\* C8 witness: the run on a missing file has ended with the not-found message
C8_Witness ==
    file.state = "missing" /\ qpc = "done" /\ output.msg = "cant_find" /\ ran = {}

\* no node of the graph has the type SoftwareApplication
NoProjectNode(d) ==
    \A i \in 1..Len(Get(d, "@graph", PyList(<<>>)).v) :
        LET ty == Get(Get(d, "@graph", PyList(<<>>)).v[i], "@type", PyList(<<>>))
        IN /\ ty.t = "str" => ty.v # <<"S","o","f","t","w","a","r","e","A","p","p","l","i","c","a","t","i","o","n">>
           /\ ty.t = "list" => PyStr(<<"S","o","f","t","w","a","r","e","A","p","p","l","i","c","a","t","i","o","n">>) \notin Range(ty.v)

\* positions in FIELDS of the fields read from the project node
ProjectFields == {1, 2, 3, 6, 7, 8}

\* C9: for a graph without a project node, project_node returns the empty
\* dict, the run does not raise, and each field read from the project node
\* (name, description, install commands, examples, license, topics) gives
\* None or the empty str and is not among the chunks that are scored
C9_NoProjectNode ==
    (doc # PyNone /\ NoProjectNode(doc)) =>
        /\ project_node(doc) = EmptyDict
        /\ qpc # "raised"
        /\ \A i \in ProjectFields : Getter(i, doc) \in {PyNone, PyStr(<<>>)}
        /\ \A k \in 1..Len(chunks) :
              chunks[k].label \notin { FieldLabels[i] : i \in ProjectFields }
        /\ (qpc = "done" /\ output.msg = "answer") =>
              output.label \notin { FieldLabels[i] : i \in ProjectFields }

\* C9 witness: a graph without a project node, holding a HowTo with commands and a node
\* with a hasPart list naming it, was queried and a list field answered
C9_Witness ==
    /\ doc # PyNone /\ NoProjectNode(doc)
    /\ \E i \in 1..Len(graph_nodes(doc).v) :
          "hasPart" \in DOMAIN graph_nodes(doc).v[i].v
    /\ \E i \in 1..Len(graph_nodes(doc).v) :
          "tool" \in DOMAIN graph_nodes(doc).v[i].v
    /\ qpc = "done"
    /\ ran = {"parse", "classify", "extract"}

\* positions in FIELDS of the fields whose text is non-empty
Surviving == { i \in 1..Len(FieldLabels) : Getter(i, doc) \notin {PyNone, PyStr(<<>>)} }

\* base: sum over the question's tokens of the token's count in the field
BaseOf(i) ==
    LET qt == tokenize(question)
        ft == tokenize(Getter(i, doc).v)
    IN Cardinality({ ab \in (1..Len(qt)) \X (1..Len(ft)) : qt[ab[1]] = ft[ab[2]] })

\* weight: 1 + the configured weights of the active intents for the label
WeightOfField(i) ==
    1 + SumSeq([k \in 1..Len(intents.v) |->
                  IF FieldLabels[i] \in DOMAIN INTENT_FIELD_WEIGHTS[intents.v[k]]
                  THEN INTENT_FIELD_WEIGHTS[intents.v[k]][FieldLabels[i]]
                  ELSE 0])

Combined(i) ==
    IF BaseOf(i) > 0 THEN BaseOf(i) * WeightOfField(i)
    ELSE IF \E k \in 1..Len(intents.v) : DOMAIN INTENT_FIELD_WEIGHTS[intents.v[k]] # {}
         THEN WeightOfField(i)
         ELSE 0

\* the field of strictly greatest combined score, the earliest among equals
Winner ==
    CHOOSE i \in Surviving :
        \A j \in Surviving :
            Combined(i) > Combined(j) \/ (Combined(i) = Combined(j) /\ i <= j)

\* C1: once every surviving field is scored, the selected field is the one
\* of greatest combined score, the earliest in registry order among equals,
\* with the scores computed as the claim states; it is the field answered
C1_BestField ==
    (doc # PyNone /\ Surviving # {}) =>
        /\ (qpc = "score" /\ idx > Len(chunks)) =>
              /\ best_label = PyStr(FieldLabels[Winner])
              /\ best_content = Getter(Winner, doc)
              /\ best_score = Combined(Winner)
        /\ qpc = "done" =>
              /\ output.msg = "answer"
              /\ output.label = FieldLabels[Winner]

\* C1 witness: platforms:list and project:topics tie for the greatest score, neither is
\* the first field scored, and the earlier of the two was answered
C1_Witness ==
    /\ qpc = "done" /\ output.msg = "answer"
    /\ output.label = <<"p","l","a","t","f","o","r","m","s",":","l","i","s","t">>
    /\ {1, 5, 8} \subseteq Surviving
    /\ Combined(5) = Combined(8)
    /\ Combined(1) < Combined(5)
    /\ \E i \in Surviving : BaseOf(i) > 0

\* C10: when a field survives, every surviving field's total is at least 1,
\* an answer is printed, the message "No relevant information found" is
\* never printed, and a sole surviving field is the answer whatever the
\* question (a list-like field cut to its first block, all stripped)
C10_AlwaysAnswers ==
    /\ output.msg # "no_relevant"
    /\ qpc \in {"score", "done"} =>
          \A k \in 1..Len(chunks) :
              Total(question, intents.v, chunks[k].label, chunks[k].content) >= 1
    /\ (qpc = "score" /\ idx > 1) => best_score >= 1 /\ best_label # PyNone
    /\ (qpc = "done" /\ doc # PyNone /\ Surviving # {}) => output.msg = "answer"
    /\ (qpc = "done" /\ doc # PyNone /\ Cardinality(Surviving) = 1) =>
          LET i == CHOOSE j \in Surviving : TRUE
              text == Getter(i, doc).v
              shown == IF i \in {3, 4, 5, 6}
                       THEN Strip(FirstPiece(text, <<"\n", "\n">>))
                       ELSE Strip(text)
              lines == SplitLines(output.text)
          IN /\ output.label = FieldLabels[i]
             /\ Len(lines) >= 2 /\ Len(lines[2]) = Len(lines[1])
             /\ output.text = lines[1] \o <<"\n">> \o lines[2] \o <<"\n">> \o shown

\* C10 witness: "How do I install this?" on a graph whose only non-empty field is
\* install:commands was answered with exactly "pip install foo"
C10_Witness ==
    /\ qpc = "done" /\ output.msg = "answer"
    /\ question = <<"H","o","w"," ","d","o"," ","I"," ","i","n","s","t","a","l","l"," ","t","h","i","s","?">>
    /\ Surviving = {3}
    /\ output = [msg |-> "answer", label |-> <<"i","n","s","t","a","l","l",":","c","o","m","m","a","n","d","s">>,
                 text |-> <<"I","n","s","t","a","l","l"," ","Â","\\u2020","\\u2019"," ","C","o","m","m","a","n","d","s","\n","-","-","-","-","-","-","-","-","-","-","-","-","-","-","-","-","-","-","-","-","\n","p","i","p"," ","i","n","s","t","a","l","l"," ","f","o","o">>]

=============================================================================
